---- MODULE Spec2Model ----
(***************************************************************************)
(* Study Helper Crew: the three-stage pipeline Reader -> Explainer -> Quiz *)
(* of src/app_simple.py (Streamlit form, direct Gemini calls) and of       *)
(* src/main.py (command line, CrewAI crew).                                *)
(*                                                                         *)
(* A text is a sequence of one-character strings.  A Python value that may *)
(* be None is a record [isNone, text].  One behaviour is one process: the  *)
(* initial state chooses the entry point and whether GEMINI_API_KEY is set.*)
(***************************************************************************)
EXTENDS Integers, Sequences, FiniteSets, TLC

VARIABLES
    entry,        \* "web" (app_simple.py) or "cli" (main.py)
    key,          \* os.getenv("GEMINI_API_KEY") is set
    pc,           \* position of the running script
    phase,        \* pipeline state shown by the status text / prints
    invocation,   \* number of invocations started so far
    text_input,   \* the text of the current invocation
    locals,       \* web: reader_result, explainer_result, quiz_result once bound
    session,      \* web: st.session_state
    storedBy,     \* invocation whose results st.session_state holds (0: none)
    messages,     \* what the current run has reported to the user
    callLog,      \* model calls of the current invocation, in order
    escaped,      \* a model exception left the function that made the call
    raised,       \* uncaught exception that ended the process ("none" if none)
    lines,        \* cli: the list lines of main()
    tasks,        \* cli: the tasks given to the Crew, in order
    crewCalls,    \* cli: number of calls of run_study_helper_crew
    button        \* web: the button whose click started the current run

vars == <<entry, key, pc, phase, invocation, text_input, locals, session,
          storedBy, messages, callLog, escaped, raised, lines, tasks,
          crewCalls, button>>

-----------------------------------------------------------------------------
(* Bounds of the model *)

MaxTextLen == 2
MaxPayloadLen == 1
MaxLineLen == 1
MaxLines == 4
MaxInvocations == 2

-----------------------------------------------------------------------------
(* Texts *)

Stages == <<"Reader", "Explainer", "Quiz">>

StageSet == {Stages[i] : i \in 1..3}

SeqsUpTo(S, n) == UNION {[1..k -> S] : k \in 0..n}

Chars == {"a", " "}

TextInputs == SeqsUpTo(Chars, MaxTextLen)

PayloadChars == {"x", "y"}

Payloads == SeqsUpTo(PayloadChars, MaxPayloadLen)

LineChars == {"a", " "}

LineValues == SeqsUpTo(LineChars, MaxLineLen)

IsSpace(c) == c \in {" ", "\n"}

RECURSIVE LStrip(_)
LStrip(s) ==
    IF s = <<>> THEN s
    ELSE IF IsSpace(Head(s)) THEN LStrip(Tail(s)) ELSE s

RECURSIVE RStrip(_)
RStrip(s) ==
    IF s = <<>> THEN s
    ELSE IF IsSpace(s[Len(s)]) THEN RStrip(SubSeq(s, 1, Len(s) - 1)) ELSE s

\* the text is tested as it is, without strip()
Strip_Missing(s) == s

\* str.strip()
Strip(s) == RStrip(LStrip(s))

RECURSIVE Join(_)
\* "\n".join(ls)
Join(ls) ==
    IF ls = <<>> THEN <<>>
    ELSE IF Len(ls) = 1 THEN ls[1]
    ELSE ls[1] \o <<"\n">> \o Join(Tail(ls))

-----------------------------------------------------------------------------
(* Python values *)

None == [isNone |-> TRUE, text |-> <<>>]

Str(t) == [isNone |-> FALSE, text |-> t]

\* the result is not tested before the next stage runs
Truthy_Unchecked(v) == TRUE

\* truth value of a str-or-None: None and "" are false
Truthy(v) == ~v.isNone /\ v.text # <<>>

\* what the model service answers to one call: an exception or a text
Responses == {[raises |-> TRUE, text |-> <<>>]}
             \cup {[raises |-> FALSE, text |-> p] : p \in Payloads}

-----------------------------------------------------------------------------
(* Model calls *)

\* one entry of callLog: stage s was called with input text t and got resp
Call(s, t, resp) ==
    [stage |-> s, input |-> t, raises |-> resp.raises, text |-> resp.text]

Calls(s) == Cardinality({i \in 1..Len(callLog) : callLog[i].stage = s})

Invoked(s) == \E i \in 1..Len(callLog) : callLog[i].stage = s

CallOf(s) == callLog[CHOOSE i \in 1..Len(callLog) : callLog[i].stage = s]

-----------------------------------------------------------------------------
(* src/app_simple.py: the web form *)

\* the f-string prompts: a fixed template for the stage with the input text
\* interpolated at one place
ReaderPrompt(text) == [stage |-> "Reader", input |-> text]

ExplainerPrompt(reader_output) == [stage |-> "Explainer", input |-> reader_output]

QuizPrompt(explainer_output) == [stage |-> "Quiz", input |-> explainer_output]

\* the sidebar's API key status, drawn by every run of the script
Sidebar(k) == IF k THEN {"API Key configured"} ELSE {"API Key not found"}

\* initOk: genai.configure and GenerativeModel did not raise
initialize_gemini(k, initOk) ==
    IF ~k THEN [model |-> FALSE, msgs |-> {"GEMINI_API_KEY not found"}]
    ELSE IF initOk THEN [model |-> TRUE, msgs |-> {}]
    ELSE [model |-> FALSE, msgs |-> {"Error initializing Gemini"}]

\* try: model.generate_content(prompt).text  except: st.error(...); None
run_reader_agent(text, resp) ==
    LET prompt == ReaderPrompt(text) IN
    [call    |-> Call(prompt.stage, prompt.input, resp),
     value   |-> IF resp.raises THEN None ELSE Str(resp.text),
     msgs    |-> IF resp.raises THEN {"Reader Agent error"} ELSE {}]

run_explainer_agent(reader_output, resp) ==
    LET prompt == ExplainerPrompt(reader_output) IN
    [call    |-> Call(prompt.stage, prompt.input, resp),
     value   |-> IF resp.raises THEN None ELSE Str(resp.text),
     msgs    |-> IF resp.raises THEN {"Explainer Agent error"} ELSE {}]

run_quiz_agent(explainer_output, resp) ==
    LET prompt == QuizPrompt(explainer_output) IN
    [call    |-> Call(prompt.stage, prompt.input, resp),
     value   |-> IF resp.raises THEN None ELSE Str(resp.text),
     msgs    |-> IF resp.raises THEN {"Quiz Agent error"} ELSE {}]

NoVars == [k \in {} |-> None]

ResultKeys == <<"reader_result", "explainer_result", "quiz_result">>

\* the run ends without a stage having started
WebRejected(msgs) ==
    /\ pc' = "idle"
    /\ phase' = "Idle"
    /\ messages' = Sidebar(key) \cup msgs

\* the Process Text button: validation, then initialize_gemini
WebProcessText(text, initOk) ==
    /\ entry = "web"
    /\ pc = "idle"
    /\ button' = "process"
    /\ invocation < MaxInvocations
    /\ invocation' = invocation + 1
    /\ text_input' = text
    /\ locals' = NoVars
    /\ callLog' = <<>>
    /\ IF Strip(text) = <<>>
       THEN WebRejected({"Please enter some text to process"})
       ELSE IF ~key
       THEN WebRejected({"Please configure your GEMINI_API_KEY"})
       ELSE LET init == initialize_gemini(key, initOk) IN
            IF init.model
            THEN /\ pc' = "reader"
                 /\ phase' = "ReaderRunning"
                 /\ messages' = Sidebar(key) \cup init.msgs
            ELSE WebRejected(init.msgs)
    /\ UNCHANGED <<entry, key, session, storedBy, escaped, raised, lines,
                   tasks, crewCalls>>

\* reader_result = run_reader_agent(model, text_input); if reader_result: ...
WebReader(resp) ==
    /\ entry = "web"
    /\ pc = "reader"
    /\ LET r == run_reader_agent(text_input, resp) IN
       /\ callLog' = Append(callLog, r.call)
       /\ locals' = ("reader_result" :> r.value) @@ locals
       /\ IF Truthy(r.value)
          THEN /\ pc' = "explainer"
               /\ phase' = "ExplainerRunning"
               /\ messages' = messages \cup r.msgs
          ELSE /\ pc' = "idle"
               /\ phase' = "Failed"
               /\ messages' = messages \cup r.msgs \cup {"Reader Agent failed"}
    /\ UNCHANGED <<button, entry, key, invocation, text_input, session,
                   storedBy, escaped, raised, lines, tasks, crewCalls>>

\* explainer_result = run_explainer_agent(model, reader_result); if ...
WebExplainer(resp) ==
    /\ entry = "web"
    /\ pc = "explainer"
    /\ LET r == run_explainer_agent(locals["reader_result"].text, resp) IN
       /\ callLog' = Append(callLog, r.call)
       /\ locals' = ("explainer_result" :> r.value) @@ locals
       /\ IF Truthy(r.value)
          THEN /\ pc' = "quiz"
               /\ phase' = "QuizRunning"
               /\ messages' = messages \cup r.msgs
          ELSE /\ pc' = "idle"
               /\ phase' = "Failed"
               /\ messages' = messages \cup r.msgs \cup {"Explainer Agent failed"}
    /\ UNCHANGED <<button, entry, key, invocation, text_input, session,
                   storedBy, escaped, raised, lines, tasks, crewCalls>>

\* the quiz result is not stored
StoreResults_Partial(vs) ==
    [k \in {"reader_result", "explainer_result"} |-> vs[k].text]

\* st.session_state[...] = ... for the three results
StoreResults(vs) ==
    [k \in {ResultKeys[i] : i \in 1..3} |-> vs[k].text]

\* quiz_result = run_quiz_agent(model, explainer_result); if quiz_result:
\* store the three results in st.session_state
WebQuiz(resp) ==
    /\ entry = "web"
    /\ pc = "quiz"
    /\ LET r == run_quiz_agent(locals["explainer_result"].text, resp) IN
       /\ callLog' = Append(callLog, r.call)
       /\ locals' = ("quiz_result" :> r.value) @@ locals
       /\ pc' = "idle"
       /\ IF Truthy(r.value)
          THEN /\ phase' = "Complete"
               /\ messages' = messages \cup r.msgs \cup {"success"}
               /\ session' = StoreResults(locals')
               /\ storedBy' = invocation
          ELSE /\ phase' = "Failed"
               /\ messages' = messages \cup r.msgs \cup {"Quiz Agent failed"}
               /\ UNCHANGED <<session, storedBy>>
    /\ UNCHANGED <<button, entry, key, invocation, text_input, escaped,
                   raised, lines, tasks, crewCalls>>

\* the three expanders under "Analysis Results"
Displayed ==
    IF "reader_result" \in DOMAIN session
    THEN [k \in {ResultKeys[i] : i \in 1..3} |-> session[k]]
    ELSE NoVars

TitleLine == "# Study Helper Crew Analysis"

ReaderHeading == "## Key Points Summary"

ExplainerHeading == "## Simple Explanations"

QuizHeading == "## Practice Questions"

\* the Explainer and Quiz results in each other's place
full_result_Swapped(s) ==
    <<"\n", TitleLine, "\n", "\n", ReaderHeading, "\n">>
    \o s["reader_result"]
    \o <<"\n", "\n", ExplainerHeading, "\n">>
    \o s["quiz_result"]
    \o <<"\n", "\n", QuizHeading, "\n">>
    \o s["explainer_result"]
    \o <<"\n", "        ">>

\* the f-string full_result; a heading line is one element of the document
full_result(s) ==
    <<"\n", TitleLine, "\n", "\n", ReaderHeading, "\n">>
    \o s["reader_result"]
    \o <<"\n", "\n", ExplainerHeading, "\n">>
    \o s["explainer_result"]
    \o <<"\n", "\n", QuizHeading, "\n">>
    \o s["quiz_result"]
    \o <<"\n", "        ">>

\* the document of the Download Results button, built by every run of the
\* script that finds reader_result in st.session_state
ExportDoc ==
    IF "reader_result" \in DOMAIN session THEN full_result(session) ELSE <<>>

\* the display and export code runs when reader_result is in the session
\* state and reads all three keys: KeyError when one of the others is missing
RenderKeyError ==
    /\ "reader_result" \in DOMAIN session
    /\ \E i \in 1..3 : ResultKeys[i] \notin DOMAIN session

\* a click on Download Results: the script is run again, nothing is processed
WebDownload ==
    /\ entry = "web"
    /\ pc = "idle"
    /\ button' = "download"
    /\ "reader_result" \in DOMAIN session
    /\ messages' = Sidebar(key)
    /\ UNCHANGED <<entry, key, pc, phase, invocation, text_input, locals,
                   session, storedBy, callLog, escaped, raised, lines, tasks,
                   crewCalls>>

\* the Clear Results button: delete the three keys, st.rerun()
WebClear ==
    /\ entry = "web"
    /\ pc = "idle"
    /\ button' = "clear"
    /\ "reader_result" \in DOMAIN session
    /\ session' = [k \in DOMAIN session \ {ResultKeys[i] : i \in 1..3}
                     |-> session[k]]
    /\ storedBy' = 0
    /\ messages' = Sidebar(key)
    /\ UNCHANGED <<entry, key, pc, phase, invocation, text_input, locals,
                   callLog, escaped, raised, lines, tasks, crewCalls>>

-----------------------------------------------------------------------------
(* src/main.py: the command line *)

\* the key is not tested
get_gemini_llm_Unchecked(k) == [llm |-> TRUE, raises |-> "none"]

\* raise ValueError when the key is not set, else the LLM object
get_gemini_llm(k) ==
    IF ~k THEN [llm |-> FALSE, raises |-> "ValueError"]
    ELSE [llm |-> TRUE, raises |-> "none"]

\* llm = get_gemini_llm() at module level, before main() is called
CliLoad ==
    /\ entry = "cli"
    /\ pc = "load"
    /\ LET r == get_gemini_llm(key) IN
       IF r.llm
       THEN pc' = "input" /\ UNCHANGED raised
       ELSE pc' = "crashed" /\ raised' = r.raises
    /\ UNCHANGED <<button, entry, key, phase, invocation, text_input, locals, session,
                   storedBy, messages, callLog, escaped, lines, tasks,
                   crewCalls>>

\* the Task descriptions: a fixed template with the argument interpolated
create_reader_task(text) == [stage |-> "Reader", input |-> text]

create_explainer_task(reader_output) ==
    [stage |-> "Explainer", input |-> reader_output]

create_quiz_task(explainer_output) ==
    [stage |-> "Quiz", input |-> explainer_output]

\* the tasks run_study_helper_crew hands to Crew(..., process=sequential)
CrewTasks(text) ==
    <<create_reader_task(text), create_explainer_task(<<>>),
      create_quiz_task(<<>>)>>

\* the loop ends at any blank line
LoopBreaks_FirstBlank(ls, line) == line = <<>>

\* the test of the read loop that ends it
LoopBreaks(ls, line) ==
    line = <<>> /\ Len(ls) > 0 /\ ls[Len(ls)] = <<>>

\* text_input = "\n".join(lines).strip()
CliText(ls) == Strip(Join(ls))

\* one input() of the read loop; on break, the rest of main() up to the
\* call of crew.kickoff()
CliReadLine(line) ==
    /\ entry = "cli"
    /\ pc = "input"
    /\ IF LoopBreaks(lines, line)
       THEN /\ UNCHANGED lines
            /\ text_input' = CliText(lines)
            /\ IF text_input' = <<>>
               THEN /\ messages' = messages \cup {"No text provided"}
                    /\ pc' = "done"
                    /\ UNCHANGED <<phase, invocation, tasks, crewCalls>>
               ELSE /\ messages' = messages \cup {"Processing text"}
                    /\ invocation' = invocation + 1
                    /\ crewCalls' = crewCalls + 1
                    /\ tasks' = CrewTasks(text_input')
                    /\ pc' = "kickoff"
                    /\ phase' = "ReaderRunning"
       ELSE /\ Len(lines) < MaxLines
            /\ lines' = Append(lines, line)
            /\ UNCHANGED <<pc, phase, invocation, text_input, messages, tasks,
                           crewCalls>>
    /\ UNCHANGED <<button, entry, key, locals, session, storedBy, callLog, escaped,
                   raised>>

\* input() at end of file: EOFError, outside the try of main()
CliEndOfInput ==
    /\ entry = "cli"
    /\ pc = "input"
    /\ pc' = "crashed"
    /\ raised' = "EOFError"
    /\ UNCHANGED <<button, entry, key, phase, invocation, text_input, locals, session,
                   storedBy, messages, callLog, escaped, lines, tasks,
                   crewCalls>>

Running(s) ==
    CASE s = "Reader" -> "ReaderRunning"
      [] s = "Explainer" -> "ExplainerRunning"
      [] s = "Quiz" -> "QuizRunning"

\* crew.kickoff(): the sequential process runs the next task of the list; an
\* exception of the model call leaves kickoff and run_study_helper_crew and
\* is caught by the except of main()
CliTask(resp) ==
    /\ entry = "cli"
    /\ pc = "kickoff"
    /\ LET idx == Len(callLog) + 1
           t == tasks[idx]
       IN /\ callLog' = Append(callLog, Call(t.stage, t.input, resp))
          /\ IF resp.raises
             THEN /\ escaped' = TRUE
                  /\ messages' = messages \cup {"Error"}
                  /\ phase' = "Failed"
                  /\ pc' = "done"
             ELSE /\ UNCHANGED escaped
                  /\ IF idx = Len(tasks)
                     THEN /\ messages' = messages
                                           \cup {"Study Helper Crew Complete"}
                          /\ phase' = "Complete"
                          /\ pc' = "done"
                     ELSE /\ UNCHANGED messages
                          /\ phase' = Running(tasks[idx + 1].stage)
                          /\ UNCHANGED pc
    /\ UNCHANGED <<button, entry, key, invocation, text_input, locals, session,
                   storedBy, raised, lines, tasks, crewCalls>>

-----------------------------------------------------------------------------
(* The process *)

Init ==
    /\ entry \in {"web", "cli"}
    /\ key \in BOOLEAN
    /\ pc = IF entry = "web" THEN "idle" ELSE "load"
    /\ phase = "Idle"
    /\ invocation = 0
    /\ text_input = <<>>
    /\ locals = NoVars
    /\ session = NoVars
    /\ storedBy = 0
    /\ messages = IF entry = "web" THEN Sidebar(key) ELSE {}
    /\ callLog = <<>>
    /\ escaped = FALSE
    /\ raised = "none"
    /\ lines = <<>>
    /\ tasks = <<>>
    /\ crewCalls = 0
    /\ button = "none"

Next ==
    \/ \E text \in TextInputs, initOk \in BOOLEAN : WebProcessText(text, initOk)
    \/ \E resp \in Responses : WebReader(resp)
    \/ \E resp \in Responses : WebExplainer(resp)
    \/ \E resp \in Responses : WebQuiz(resp)
    \/ WebDownload
    \/ WebClear
    \/ CliLoad
    \/ \E line \in LineValues : CliReadLine(line)
    \/ CliEndOfInput
    \/ \E resp \in Responses : CliTask(resp)

Spec == Init /\ [][Next]_vars

-----------------------------------------------------------------------------
(* Properties *)

\* the current run has finished (web: back at the form; cli: main returned)
Finished == pc \in {"idle", "done"}

AllWhitespace(t) == \A i \in 1..Len(t) : IsSpace(t[i])

\* the current web run is the one that handled a click on Process Text
WebProcessRun == entry = "web" /\ button = "process"

\* C1: the stages are called in the order Reader, Explainer, Quiz, each at
\* most once per invocation; a stage is called only after the call before it
\* returned without raising; after a call that raised no further call is
\* made (Reader raises: counts Reader=1, Explainer=0, Quiz=0).  Both entry
\* points.
C1_StageOrder ==
    /\ Len(callLog) <= Len(Stages)
    /\ \A i \in 1..Len(callLog) :
          /\ callLog[i].stage = Stages[i]
          /\ i > 1 => ~callLog[i - 1].raises
          /\ callLog[i].raises => Len(callLog) = i
    /\ (Invoked("Reader") /\ CallOf("Reader").raises)
          => Calls("Reader") = 1 /\ Calls("Explainer") = 0 /\ Calls("Quiz") = 0

\* C1 witness: an invocation has ended after the Reader call raised
C1_Witness ==
    /\ Finished
    /\ Len(callLog) = 1
    /\ callLog[1].stage = "Reader"
    /\ callLog[1].raises

\* C2: whenever Explainer is called its input is Reader's output verbatim,
\* and whenever Quiz is called its input is Explainer's output verbatim, in
\* both entry points.
C2_HandOff ==
    /\ Invoked("Explainer") =>
          Invoked("Reader") /\ CallOf("Explainer").input = CallOf("Reader").text
    /\ Invoked("Quiz") =>
          Invoked("Explainer") /\ CallOf("Quiz").input = CallOf("Explainer").text

\* the three model calls of the invocation were made and none raised
AllCallsReturned ==
    Len(callLog) = Len(Stages) /\ \A i \in 1..Len(callLog) : ~callLog[i].raises

\* C3: for a non-blank input, when no model call failed the web pipeline
\* does not end in Failed, and when all three calls returned (whatever the
\* text) it ends in Complete with exactly the three returned payloads stored,
\* in the order Reader, Explainer, Quiz.
C3_CompleteOnSuccess ==
    (WebProcessRun /\ pc = "idle") =>
        /\ phase = "Failed" => \E i \in 1..Len(callLog) : callLog[i].raises
        /\ AllCallsReturned =>
              /\ phase = "Complete"
              /\ DOMAIN session = {ResultKeys[i] : i \in 1..3}
              /\ \A i \in 1..3 : session[ResultKeys[i]] = callLog[i].text

\* C4: an empty or whitespace-only input makes no model call, is reported as
\* a usage error and leaves the pipeline in Idle: the web form's Process Text
\* and the command line's main (which reports it once its read loop has ended).
C4_BlankInputRejected ==
    /\ (WebProcessRun /\ AllWhitespace(text_input)) =>
          /\ callLog = <<>>
          /\ phase = "Idle"
          /\ pc = "idle"
          /\ "Please enter some text to process" \in messages
    /\ (entry = "cli" /\ \A i \in 1..Len(lines) : AllWhitespace(lines[i])) =>
          /\ callLog = <<>>
          /\ crewCalls = 0
          /\ phase = "Idle"
          /\ pc # "kickoff"
          /\ pc = "done" => "No text provided" \in messages

\* C4 witness: Process Text was clicked on a text of one space and refused
C4_Witness ==
    /\ WebProcessRun
    /\ key
    /\ text_input = <<" ">>
    /\ "Please enter some text to process" \in messages

\* C5: without GEMINI_API_KEY no model call is ever made and the pipeline
\* never leaves Idle; the form reports the missing key (sidebar on every run,
\* and the Process Text guard on a non-blank text), the command line raises
\* ValueError while the module loads, before any input is read.
C5_MissingKey ==
    ~key =>
        /\ callLog = <<>>
        /\ phase = "Idle"
        /\ crewCalls = 0
        /\ entry = "web" =>
              /\ pc = "idle"
              /\ "API Key not found" \in messages
              /\ (button = "process" /\ ~AllWhitespace(text_input)) =>
                    "Please configure your GEMINI_API_KEY" \in messages
        /\ entry = "cli" =>
              /\ pc \in {"load", "crashed"}
              /\ lines = <<>>
              /\ pc = "crashed" => raised = "ValueError"

\* C5 witness: the command line stopped with ValueError at load, no key set
C5_Witness ==
    /\ entry = "cli"
    /\ ~key
    /\ pc = "crashed"
    /\ raised = "ValueError"

\* the Explainer call of the current web invocation raised after Reader
\* returned a text
ExplainerFailed ==
    /\ WebProcessRun
    /\ pc = "idle"
    /\ Len(callLog) = 2
    /\ ~callLog[1].raises
    /\ callLog[2].raises

\* C6: when the Explainer call fails after Reader succeeded, the state the
\* invocation leaves holds Reader's result, holds no payload for Explainer
\* or Quiz, and Quiz was not called (counts 1, 1, 0).
C6_ReaderPreserved ==
    ExplainerFailed =>
        /\ "reader_result" \in DOMAIN session
        /\ session["reader_result"] = callLog[1].text
        /\ "explainer_result" \notin DOMAIN session
        /\ "quiz_result" \notin DOMAIN session
        /\ Calls("Reader") = 1 /\ Calls("Explainer") = 1 /\ Calls("Quiz") = 0

\* the message that names the stage whose model call raised
StageErrorMessage(s) ==
    CASE s = "Reader" -> "Reader Agent error"
      [] s = "Explainer" -> "Explainer Agent error"
      [] s = "Quiz" -> "Quiz Agent error"

\* C7: a model call that raises is never propagated as an exception out of
\* the function that made it, and the run reports which stage failed: the
\* three stage runners of the form and run_study_helper_crew.
C7_FailureContained ==
    \A i \in 1..Len(callLog) :
        (callLog[i].raises /\ (entry = "web" => button = "process")) =>
            /\ ~escaped
            /\ StageErrorMessage(callLog[i].stage) \in messages

\* C8: once a later invocation has been handled, the results held, shown and
\* exported are never those of an earlier invocation.
C8_NoStaleResults ==
    (entry = "web" /\ pc = "idle" /\ "reader_result" \in DOMAIN Displayed)
        => storedBy = invocation

\* the positions of element h in document d
Positions(d, h) == {i \in 1..Len(d) : d[i] = h}

\* in d the line h at position i is followed by the text t verbatim
FollowedBy(d, i, t) ==
    /\ i + 1 + Len(t) <= Len(d)
    /\ d[i + 1] = "\n"
    /\ SubSeq(d, i + 2, i + 1 + Len(t)) = t

Only(S) == CHOOSE x \in S : TRUE

\* d is: a title line, then the Reader heading and R, then the Explainer
\* heading and E, then the Quiz heading and Q, each heading once
Layout(d, R, E, Q) ==
    /\ \A h \in {TitleLine, ReaderHeading, ExplainerHeading, QuizHeading} :
          Cardinality(Positions(d, h)) = 1
    /\ LET t == Only(Positions(d, TitleLine))
           i == Only(Positions(d, ReaderHeading))
           j == Only(Positions(d, ExplainerHeading))
           k == Only(Positions(d, QuizHeading))
       IN /\ t < i
          /\ FollowedBy(d, i, R)
          /\ i + 1 + Len(R) < j
          /\ FollowedBy(d, j, E)
          /\ j + 1 + Len(E) < k
          /\ FollowedBy(d, k, Q)

\* the form holds the results of the invocation that has just completed
JustCompleted ==
    /\ entry = "web"
    /\ pc = "idle"
    /\ invocation > 0
    /\ storedBy = invocation

\* C9: for the payloads R, E, Q returned by the three calls of a completed
\* invocation, the export document is a title line, the Reader heading
\* followed by R, the Explainer heading followed by E and the Quiz heading
\* followed by Q, in this order, no stage omitted, repeated or swapped.
C9_ExportLayout ==
    JustCompleted =>
        Layout(ExportDoc, callLog[1].text, callLog[2].text, callLog[3].text)

\* C9 witness: a completed invocation whose three payloads are not all equal
\* is on offer for download
C9_Witness ==
    /\ JustCompleted
    /\ ExportDoc # <<>>
    /\ callLog[1].text # callLog[2].text
    /\ callLog[2].text # callLog[3].text

\* the read loop of the command line has ended by its break
LoopEnded == entry = "cli" /\ pc \in {"kickoff", "done"}

\* t is s without its leading and trailing whitespace
Trimmed(t, s) ==
    /\ t # <<>> => ~IsSpace(t[1]) /\ ~IsSpace(t[Len(t)])
    /\ \E a \in 1..(Len(s) + 1) :
          /\ a + Len(t) - 1 <= Len(s)
          /\ t = SubSeq(s, a, a + Len(t) - 1)
          /\ \A i \in 1..Len(s) :
                (i < a \/ i > a + Len(t) - 1) => IsSpace(s[i])

\* C10 as stated: the read loop stops at the first blank line, the text
\* passed on is the lines before it, and run_study_helper_crew is called at
\* most once, not at all when the text is empty.
C10_StopsAtFirstBlank ==
    /\ crewCalls <= 1
    /\ LoopEnded =>
          /\ \A i \in 1..Len(lines) : lines[i] # <<>>
          /\ Trimmed(text_input, Join(lines))
          /\ crewCalls = IF text_input = <<>> THEN 0 ELSE 1

\* C10 amended: the read loop stops at the first blank line that directly
\* follows a blank line (lines then ends with one blank line and holds no two
\* blank lines in a row); the text passed on is the lines read before it,
\* joined by newlines, without leading and trailing whitespace;
\* run_study_helper_crew is called at most once, not at all when that text is
\* empty or the input ends before the loop does.
C10_StopsAtSecondBlank ==
    /\ crewCalls <= 1
    /\ (entry = "cli" /\ ~LoopEnded) => crewCalls = 0
    /\ LoopEnded =>
          /\ Len(lines) >= 1
          /\ lines[Len(lines)] = <<>>
          /\ \A i \in 1..(Len(lines) - 1) :
                ~(lines[i] = <<>> /\ lines[i + 1] = <<>>)
          /\ Trimmed(text_input, Join(lines))
          /\ crewCalls = IF text_input = <<>> THEN 0 ELSE 1

\* C10 witness: a text with a blank line inside it was read and passed on
C10_Witness ==
    /\ LoopEnded
    /\ lines = << <<"a">>, <<>>, <<"a">>, <<>> >>
    /\ text_input = <<"a", "\n", "\n", "a">>
    /\ crewCalls = 1

\* the three result keys are all in the session state s or all absent
AllOrNone(s) ==
    \/ \A i \in 1..3 : ResultKeys[i] \in DOMAIN s
    \/ \A i \in 1..3 : ResultKeys[i] \notin DOMAIN s

\* a step changes the session state only by deleting the three keys or by
\* storing the three payloads returned by the calls of the current invocation
StoredTogether ==
    session' # session =>
        \/ \A i \in 1..3 : ResultKeys[i] \notin DOMAIN session'
        \/ /\ Len(callLog') = 3
           /\ storedBy' = invocation'
           /\ \A i \in 1..3 :
                 /\ ResultKeys[i] \in DOMAIN session'
                 /\ ~callLog'[i].raises
                 /\ session'[ResultKeys[i]] = callLog'[i].text

\* C11: after any sequence of Process Text and Clear Results the keys
\* reader_result, explainer_result and quiz_result are all present or all
\* absent; they are only ever written together, as the three payloads of one
\* invocation; so the display and export code never reads a missing key.
C11_SessionKeys ==
    /\ [](AllOrNone(session) /\ ~RenderKeyError)
    /\ [][StoredTogether]_vars

\* C11 witness: the results of an earlier invocation are still held, all
\* three, after a later invocation failed
C11_Witness ==
    /\ entry = "web"
    /\ pc = "idle"
    /\ phase = "Failed"
    /\ storedBy >= 1
    /\ invocation > storedBy
    /\ \A i \in 1..3 : ResultKeys[i] \in DOMAIN session

====
